---- MODULE Spec2Model ----
(***************************************************************************)
(* A model of src/notice.py: the Notice eligibility predicate (need_show), *)
(* the first-run tracker it consults, and the NoticeManager operations     *)
(* (load, save, add_notice, show_notices).                                 *)
(*                                                                         *)
(* Time is counted in ticks (the sub-second resolution of get_now()).      *)
(* The textual timestamps "YYYY-MM-DD HH:MM:SS" kept in send_at and        *)
(* expire_at are whole seconds: format_time drops the sub-second part and  *)
(* parse_time gives the first tick of the second.                          *)
(***************************************************************************)
EXTENDS Integers, Sequences, FiniteSets, TLC

VARIABLES now, notices, first_run, disk, last, hist

vars == <<now, notices, first_run, disk, last, hist>>

(***************************************************************************)
(* Bounds of the model.                                                    *)
(***************************************************************************)
\* the clock runs over the days 0 .. MaxDays - 1
MaxDays == 4
\* the collection holds at most MaxNotices notices
MaxNotices == 2

(***************************************************************************)
(* The calendar, scaled down: ticks per second, seconds per day, days per  *)
(* week and per month.  Weeks and months are not nested, as in the real    *)
(* calendar.                                                               *)
(***************************************************************************)
TicksPerSec == 2
SecsPerDay == 2
DaysPerWeek == 2
DaysPerMonth == 3

TicksPerDay == TicksPerSec * SecsPerDay
MaxTime == MaxDays * TicksPerDay - 1
MaxSec == MaxDays * SecsPerDay - 1

\* util.get_now() is the variable now; util.format_time / util.parse_time
format_time(t) == t \div TicksPerSec
parse_time(s) == s * TicksPerSec
format_now(t) == format_time(t)

\* the calendar day, week and month an instant falls in
get_day(t) == t \div TicksPerDay
get_week(t) == get_day(t) \div DaysPerWeek
get_month(t) == get_day(t) \div DaysPerMonth

(***************************************************************************)
(* Versions: a dotted version string is the tuple of its numbers, the      *)
(* empty string is the empty tuple.  version_less compares the number      *)
(* lists as Python compares lists.                                         *)
(***************************************************************************)
NoVersion == << >>
now_version == <<1, 1>>

RECURSIVE list_less(_, _)
list_less(a, b) ==
    IF a = << >> THEN b # << >>
    ELSE IF b = << >> THEN FALSE
    ELSE IF Head(a) < Head(b) THEN TRUE
    ELSE IF Head(a) > Head(b) THEN FALSE
    ELSE list_less(Tail(a), Tail(b))

version_less(a, b) == list_less(a, b)

(***************************************************************************)
(* class NoticeShowType                                                    *)
(***************************************************************************)
ONCE == "once"
DAILY == "daily"
WEEKLY == "weekly"
MONTHLY == "monthly"
ALWAYS == "always"
DEPRECATED == "deprecated"

valid_notice_show_type == {ONCE, DAILY, WEEKLY, MONTHLY, ALWAYS, DEPRECATED}

(***************************************************************************)
(* The persistent first-run store: a mapping from tracker key to the       *)
(* instant the key last triggered.  A key without a record is not in the   *)
(* domain.                                                                 *)
(***************************************************************************)
EmptyStore == [k \in {} |-> 0]

HasRecord(fr, key) == key \in DOMAIN fr

Record(fr, key, t) == [k \in DOMAIN fr \cup {key} |-> IF k = key THEN t ELSE fr[k]]

Answer(r, fr) == [result |-> r, first_run |-> fr]

\* ONE_TIME window: true iff no record exists; a true answer records now
is_first_run(key, fr, t) ==
    IF ~HasRecord(fr, key) THEN Answer(TRUE, Record(fr, key, t))
    ELSE Answer(FALSE, fr)

\* DAY window
is_daily_first_run(key, fr, t) ==
    IF ~HasRecord(fr, key) \/ get_day(fr[key]) # get_day(t)
    THEN Answer(TRUE, Record(fr, key, t))
    ELSE Answer(FALSE, fr)

\* WEEK window
is_weekly_first_run(key, fr, t) ==
    IF ~HasRecord(fr, key) \/ get_week(fr[key]) # get_week(t)
    THEN Answer(TRUE, Record(fr, key, t))
    ELSE Answer(FALSE, fr)

\* MONTH window
is_monthly_first_run(key, fr, t) ==
    IF ~HasRecord(fr, key) \/ get_month(fr[key]) # get_month(t)
    THEN Answer(TRUE, Record(fr, key, t))
    ELSE Answer(FALSE, fr)

\* first_run.reset_first_run(key): clears any stored instant for key
reset_first_run(key, fr) == [k \in DOMAIN fr \ {key} |-> fr[k]]

(***************************************************************************)
(* class Notice                                                            *)
(***************************************************************************)
\* mutant of get_first_run_key: the message is part of the key
get_first_run_key_with_message(n) == <<"notice_need_show", n.title, n.send_at, n.message>>

\* Notice.get_first_run_key: f"notice_need_show_{title}_{send_at}"
get_first_run_key(n) == <<"notice_need_show", n.title, n.send_at>>

\* mutant of expired: the comparison reversed
expired_reversed(n, t) == t < parse_time(n.expire_at)

\* Notice.need_show, line 49: the expiry test
expired(n, t) == t > parse_time(n.expire_at)

\* mutant of version_limited: the arguments of version_less swapped
version_limited_swapped(n) ==
    /\ n.show_only_before_version # NoVersion
    /\ ~version_less(n.show_only_before_version, now_version)

\* Notice.need_show, line 53: the version test
version_limited(n) ==
    /\ n.show_only_before_version # NoVersion
    /\ ~version_less(now_version, n.show_only_before_version)

\* mutant of first_run_by_show_type: ONCE asks the daily window
first_run_once_as_daily(show_type, key, fr, t) ==
    IF show_type \in {ONCE, DAILY} THEN is_daily_first_run(key, fr, t)
    ELSE IF show_type = WEEKLY THEN is_weekly_first_run(key, fr, t)
    ELSE IF show_type = MONTHLY THEN is_monthly_first_run(key, fr, t)
    ELSE IF show_type = ALWAYS THEN Answer(TRUE, fr)
    ELSE Answer(FALSE, fr)

\* mutant of first_run_by_show_type: DAILY asks the weekly window
first_run_daily_as_weekly(show_type, key, fr, t) ==
    IF show_type = ONCE THEN is_first_run(key, fr, t)
    ELSE IF show_type \in {DAILY, WEEKLY} THEN is_weekly_first_run(key, fr, t)
    ELSE IF show_type = MONTHLY THEN is_monthly_first_run(key, fr, t)
    ELSE IF show_type = ALWAYS THEN Answer(TRUE, fr)
    ELSE Answer(FALSE, fr)

\* mutant of first_run_by_show_type: ALWAYS goes through the tracker
first_run_always_tracked(show_type, key, fr, t) ==
    IF show_type = ONCE THEN is_first_run(key, fr, t)
    ELSE IF show_type = DAILY THEN is_daily_first_run(key, fr, t)
    ELSE IF show_type = WEEKLY THEN is_weekly_first_run(key, fr, t)
    ELSE IF show_type = MONTHLY THEN is_monthly_first_run(key, fr, t)
    ELSE IF show_type = ALWAYS THEN is_daily_first_run(key, fr, t)
    ELSE Answer(FALSE, fr)

\* mutant of first_run_by_show_type: DEPRECATED is treated as ONCE
first_run_deprecated_as_once(show_type, key, fr, t) ==
    IF show_type \in {ONCE, DEPRECATED} THEN is_first_run(key, fr, t)
    ELSE IF show_type = DAILY THEN is_daily_first_run(key, fr, t)
    ELSE IF show_type = WEEKLY THEN is_weekly_first_run(key, fr, t)
    ELSE IF show_type = MONTHLY THEN is_monthly_first_run(key, fr, t)
    ELSE IF show_type = ALWAYS THEN Answer(TRUE, fr)
    ELSE Answer(FALSE, fr)

\* Notice.need_show, lines 57-70: the dispatch on show_type
first_run_by_show_type(show_type, key, fr, t) ==
    IF show_type = ONCE THEN is_first_run(key, fr, t)
    ELSE IF show_type = DAILY THEN is_daily_first_run(key, fr, t)
    ELSE IF show_type = WEEKLY THEN is_weekly_first_run(key, fr, t)
    ELSE IF show_type = MONTHLY THEN is_monthly_first_run(key, fr, t)
    ELSE IF show_type = ALWAYS THEN Answer(TRUE, fr)
    ELSE IF show_type = DEPRECATED THEN Answer(FALSE, fr)
    ELSE Answer(FALSE, fr)

\* mutant of need_show: the tracker is asked before the expiry and version tests
need_show_tracker_first(n, fr, t) ==
    LET a == first_run_by_show_type(n.show_type, get_first_run_key(n), fr, t) IN
    IF expired(n, t) THEN Answer(FALSE, a.first_run)
    ELSE IF version_limited(n) THEN Answer(FALSE, a.first_run)
    ELSE a

\* Notice.need_show
need_show(n, fr, t) ==
    LET key == get_first_run_key(n) IN
    IF expired(n, t) THEN Answer(FALSE, fr)
    ELSE IF version_limited(n) THEN Answer(FALSE, fr)
    ELSE first_run_by_show_type(n.show_type, key, fr, t)

\* mutant of Notice_reset_first_run: the key is built without send_at
Notice_reset_first_run_title_key(n, fr) ==
    reset_first_run(<<"notice_need_show", n.title>>, fr)

\* Notice.reset_first_run
Notice_reset_first_run(n, fr) == reset_first_run(get_first_run_key(n), fr)

(***************************************************************************)
(* The values the notices of the model are drawn from.                     *)
(***************************************************************************)
DefaultSender == "sender0"
ShowTypes == valid_notice_show_type \cup {"bogus"}
\* an expire_at past the last instant of the clock
FarFuture == MaxSec + 1
ExpireAts == 0 .. FarFuture
\* "", a lower version, the current version, a higher version
Versions == {NoVersion, <<1>>, <<1, 1>>, <<1, 2>>}

NewNotice(sender, title, message, send_at, show_type, open_url, expire_at, version) ==
    [sender |-> sender, title |-> title, message |-> message, send_at |-> send_at,
     show_type |-> show_type, open_url |-> open_url, expire_at |-> expire_at,
     show_only_before_version |-> version]

(***************************************************************************)
(* What the claims mean by expired, version-gated and tracked.             *)
(***************************************************************************)
\* expireAt is earlier than the instant t
IsExpired(n, t) == parse_time(n.expire_at) < t

\* showOnlyBeforeVersion is set and is less than or equal to the current version
IsGated(n) ==
    /\ n.show_only_before_version # NoVersion
    /\ \/ n.show_only_before_version = now_version
       \/ list_less(n.show_only_before_version, now_version)

IsTracked(n) == n.show_type \in {ONCE, DAILY, WEEKLY, MONTHLY}

IsEligible(n, t) == ~IsExpired(n, t) /\ ~IsGated(n)

NoInstant == 0 - 1

(***************************************************************************)
(* Spec: one notice, its tracker record and the clock.  The operations are *)
(* need_show, reset_first_run, the assignment show_only_before_version =   *)
(* "" of test(), and the passing of time.  The store may hold a record for *)
(* the notice's key left by an earlier run at instant 0.                   *)
(*                                                                         *)
(* last is the last operation and what it returned; hist is the history    *)
(* the claims speak of: elig, the instant of the last need_show call made  *)
(* on the key while the notice was neither expired nor gated, since the    *)
(* last reset (NoInstant when there is none), and reset, whether the last  *)
(* operation on the key was a reset and whether it cleared a record, and   *)
(* blocked: "pending" after a need_show call made while the notice was     *)
(* expired or gated, "passed" after a call made while it was neither that  *)
(* followed such calls, "none" otherwise.                                  *)
(***************************************************************************)
\* the files of the manager are not part of this specification
NoDisk == "none"

Op(op, result, before, prev_elig, after_reset) ==
    [op |-> op, result |-> result, before |-> before, prev_elig |-> prev_elig,
     after_reset |-> after_reset]

NoOp(op) == Op(op, FALSE, EmptyStore, NoInstant, "no")

Init ==
    /\ now = 0
    /\ \E st \in ShowTypes, e \in ExpireAts, v \in Versions :
          notices = <<NewNotice(DefaultSender, "t1", "m1", 0, st, "", e, v)>>
    /\ \E r \in {NoInstant, 0} :
          /\ first_run = IF r = NoInstant THEN EmptyStore
                         ELSE Record(EmptyStore, get_first_run_key(notices[1]), r)
          /\ hist = [elig |-> r, reset |-> "no", blocked |-> "none"]
    /\ disk = NoDisk
    /\ last = NoOp("init")

Tick ==
    /\ now < MaxTime
    /\ now' = now + 1
    /\ last' = NoOp("tick")
    /\ UNCHANGED <<notices, first_run, disk, hist>>

NeedShow ==
    LET n == notices[1]
        a == need_show(n, first_run, now)
    IN  /\ first_run' = a.first_run
        /\ last' = Op("need_show", a.result, first_run, hist.elig, hist.reset)
        /\ hist' = [hist EXCEPT
                      !.elig = IF IsEligible(n, now) THEN now ELSE @,
                      !.reset = "no",
                      !.blocked = IF ~IsEligible(n, now) THEN "pending"
                                  ELSE IF @ = "pending" THEN "passed" ELSE "none"]
        /\ UNCHANGED <<now, notices, disk>>

ResetFirstRun ==
    LET n == notices[1] IN
    /\ first_run' = Notice_reset_first_run(n, first_run)
    /\ hist' = [hist EXCEPT
                  !.elig = NoInstant,
                  !.reset = IF HasRecord(first_run, get_first_run_key(n))
                            THEN "cleared" ELSE "nothing"]
    /\ last' = NoOp("reset_first_run")
    /\ UNCHANGED <<now, notices, disk>>

\* test(), line 252: notice.show_only_before_version = ""
ClearVersionLimit ==
    /\ notices' = [notices EXCEPT ![1].show_only_before_version = NoVersion]
    /\ last' = NoOp("clear_version")
    /\ UNCHANGED <<now, first_run, disk, hist>>

Next == Tick \/ NeedShow \/ ResetFirstRun \/ ClearVersionLimit

Spec == Init /\ [][Next]_vars

(***************************************************************************)
(* class NoticeManager: add_notice                                         *)
(*                                                                         *)
(* The arguments send_at = "" and valid_duration = None are NoSendAt and   *)
(* NoDuration.  A duration is a number of ticks; the duration 0 is falsy   *)
(* in Python as None is, and gets the default as well.                     *)
(***************************************************************************)
NoSendAt == 0 - 1
NoDuration == 0 - 1
\* timedelta(days=7)
DefaultValidDays == 7

SameContent(old_notice, title, message, sender) ==
    /\ old_notice.title = title
    /\ old_notice.message = message
    /\ old_notice.sender = sender

\* mutant of add_notice: show_type is not validated
add_notice_unvalidated(ns, t, title, message, sender, send_at, show_type, open_url, valid_duration, show_only_before_version) ==
    LET send_at1 == IF send_at = NoSendAt THEN format_now(t) ELSE send_at
        duration == IF valid_duration = NoDuration \/ valid_duration = 0
                    THEN DefaultValidDays * TicksPerDay ELSE valid_duration
    IN  IF \E i \in 1 .. Len(ns) : SameContent(ns[i], title, message, sender)
        THEN ns
        ELSE Append(ns, NewNotice(sender, title, message, send_at1, show_type, open_url,
                                  format_time(t + duration), show_only_before_version))

\* mutant of add_notice: the duplicate guard also compares send_at
add_notice_guard_send_at(ns, t, title, message, sender, send_at, show_type, open_url, valid_duration, show_only_before_version) ==
    LET send_at1 == IF send_at = NoSendAt THEN format_now(t) ELSE send_at
        duration == IF valid_duration = NoDuration \/ valid_duration = 0
                    THEN DefaultValidDays * TicksPerDay ELSE valid_duration
    IN  IF show_type \notin valid_notice_show_type THEN ns
        ELSE IF \E i \in 1 .. Len(ns) :
                    /\ SameContent(ns[i], title, message, sender)
                    /\ ns[i].send_at = send_at1
        THEN ns
        ELSE Append(ns, NewNotice(sender, title, message, send_at1, show_type, open_url,
                                  format_time(t + duration), show_only_before_version))

\* mutant of add_notice: expire_at is counted from send_at
add_notice_expire_from_send_at(ns, t, title, message, sender, send_at, show_type, open_url, valid_duration, show_only_before_version) ==
    LET send_at1 == IF send_at = NoSendAt THEN format_now(t) ELSE send_at
        duration == IF valid_duration = NoDuration \/ valid_duration = 0
                    THEN DefaultValidDays * TicksPerDay ELSE valid_duration
    IN  IF show_type \notin valid_notice_show_type THEN ns
        ELSE IF \E i \in 1 .. Len(ns) : SameContent(ns[i], title, message, sender)
        THEN ns
        ELSE Append(ns, NewNotice(sender, title, message, send_at1, show_type, open_url,
                                  format_time(parse_time(send_at1) + duration),
                                  show_only_before_version))

\* NoticeManager.add_notice: the collection after the call made at instant t
add_notice(ns, t, title, message, sender, send_at, show_type, open_url, valid_duration, show_only_before_version) ==
    LET send_at1 == IF send_at = NoSendAt THEN format_now(t) ELSE send_at
        duration == IF valid_duration = NoDuration \/ valid_duration = 0
                    THEN DefaultValidDays * TicksPerDay ELSE valid_duration
    IN  IF show_type \notin valid_notice_show_type THEN ns
        ELSE IF \E i \in 1 .. Len(ns) : SameContent(ns[i], title, message, sender)
        THEN ns
        ELSE Append(ns, NewNotice(sender, title, message, send_at1, show_type, open_url,
                                  format_time(t + duration), show_only_before_version))

(***************************************************************************)
(* SpecAdd: a manager whose collection starts empty, at the first instant   *)
(* of second 0 or in the middle of second 1; the operation is add_notice,  *)
(* and the collection grows to MaxNotices notices.                         *)
(*                                                                         *)
(* The (title, message, sender) triples are a base triple and the three    *)
(* that differ from it in one component.  The other arguments are the      *)
(* defaults of add_notice and the tuples that differ from the defaults in  *)
(* one argument; "bogus", "ONCE" and "" are invalid values of show_type.   *)
(***************************************************************************)
Contents ==
    {<<"t1", "m1", DefaultSender>>, <<"t2", "m1", DefaultSender>>,
     <<"t1", "m2", DefaultSender>>, <<"t1", "m1", "sender1">>}

\* <<send_at, show_type, open_url, valid_duration, show_only_before_version>>
DefaultArgs == <<NoSendAt, ONCE, "", NoDuration, NoVersion>>

Args ==
    {DefaultArgs}
    \cup {[DefaultArgs EXCEPT ![1] = s] : s \in {0, 1}}
    \cup {[DefaultArgs EXCEPT ![2] = st] : st \in {ALWAYS, DEPRECATED, "bogus", "ONCE", ""}}
    \cup {[DefaultArgs EXCEPT ![3] = "u1"]}
    \cup {[DefaultArgs EXCEPT ![4] = d] : d \in {0, TicksPerSec + 1}}
    \cup {[DefaultArgs EXCEPT ![5] = v] : v \in {<<1, 1>>, <<1, 2>>}}

\* the showType values the claims call valid
ClaimedShowTypes == {"once", "daily", "weekly", "monthly", "always", "deprecated"}

\* whether the collection holds the triple, and with which sendAt
DupKind(ns, t, c, send_at) ==
    LET s == IF send_at = NoSendAt THEN format_time(t) ELSE send_at
        same == {i \in 1 .. Len(ns) : <<ns[i].title, ns[i].message, ns[i].sender>> = c}
    IN  IF same = {} THEN "none"
        ELSE IF \E i \in same : ns[i].send_at = s THEN "same_send_at"
        ELSE "other_send_at"

AddOp(valid_type, dup, changed) ==
    [op |-> "add_notice", valid_type |-> valid_type, dup |-> dup, changed |-> changed]

InitAdd ==
    /\ now \in {0, TicksPerSec + 1}
    /\ notices = << >>
    /\ first_run = EmptyStore
    /\ disk = NoDisk
    /\ hist = "none"
    /\ last = [op |-> "init"]

AddNotice ==
    \E c \in Contents, a \in Args :
        LET after == add_notice(notices, now, c[1], c[2], c[3], a[1], a[2], a[3], a[4], a[5])
        IN  /\ Len(after) <= MaxNotices
            /\ notices' = after
            /\ last' = AddOp(a[2] \in ClaimedShowTypes,
                             DupKind(notices, now, c, a[1]),
                             after # notices)
            /\ UNCHANGED <<now, first_run, disk, hist>>

NextAdd == AddNotice

SpecAdd == InitAdd /\ [][NextAdd]_vars

(***************************************************************************)
(* SpecExpire: a manager whose collection starts empty, at an instant of   *)
(* second 0 or the first of second 1.  One add_notice call puts a notice   *)
(* in the collection; then the operations are those of Spec on that        *)
(* notice.  hist has the fields it has in Spec, and at, send_at and        *)
(* duration: the instant of the add_notice call and its arguments.         *)
(***************************************************************************)
\* valid_duration: None, no time at all, less than a second, a second, a day
Durations == {NoDuration, 0, 1, TicksPerSec, TicksPerDay}

InitExpire ==
    /\ now \in 0 .. TicksPerSec
    /\ notices = << >>
    /\ first_run = EmptyStore
    /\ disk = NoDisk
    /\ hist = [elig |-> NoInstant, reset |-> "no", blocked |-> "none",
               at |-> NoInstant, send_at |-> NoSendAt, duration |-> NoDuration]
    /\ last = NoOp("init")

AddNoticeExpire ==
    \E show_type \in {ONCE, DAILY, ALWAYS}, send_at \in {NoSendAt, 0}, d \in Durations :
        /\ notices = << >>
        /\ notices' = add_notice(notices, now, "t1", "m1", DefaultSender, send_at, show_type, "", d, NoVersion)
        /\ hist' = [hist EXCEPT !.at = now, !.send_at = send_at, !.duration = d]
        /\ last' = NoOp("add_notice")
        /\ UNCHANGED <<now, first_run, disk>>

TickExpire == Tick

NeedShowExpire == notices # << >> /\ NeedShow

ResetFirstRunExpire == notices # << >> /\ ResetFirstRun

NextExpire == AddNoticeExpire \/ TickExpire \/ NeedShowExpire \/ ResetFirstRunExpire

SpecExpire == InitExpire /\ [][NextExpire]_vars

(***************************************************************************)
(* class NoticeManager: the order of the collection and show_notices       *)
(***************************************************************************)
\* Notice.__lt__
Notice_lt(a, b) == parse_time(a.send_at) < parse_time(b.send_at)

\* sorted(self.notices) of load, line 107: a stable sort by Notice.__lt__
RECURSIVE sorted(_)
sorted(ns) ==
    IF ns = << >> THEN << >>
    ELSE LET x == ns[Len(ns)]
             front == sorted(SubSeq(ns, 1, Len(ns) - 1))
             k == Cardinality({i \in 1 .. Len(front) : ~Notice_lt(x, front[i])})
         IN  SubSeq(front, 1, k) \o <<x>> \o SubSeq(front, k + 1, Len(front))

\* show_notices, line 125: need_show is asked of every notice from the i-th
\* on, in collection order, each call on the store the calls before it left.
\* valid_notices holds the positions in the collection of the notices kept.
RECURSIVE filter_need_show(_, _, _, _)
filter_need_show(ns, i, fr, t) ==
    IF i > Len(ns) THEN [valid_notices |-> << >>, first_run |-> fr]
    ELSE LET a == need_show(ns[i], fr, t)
             rest == filter_need_show(ns, i + 1, a.first_run, t)
         IN  [valid_notices |-> IF a.result THEN <<i>> \o rest.valid_notices
                                ELSE rest.valid_notices,
              first_run |-> rest.first_run]

\* mutant of MessageBox: the notices are numbered from 0
MessageBox_zero_based(ns, valid_notices, k) ==
    [notice |-> valid_notices[k],
     message |-> ns[valid_notices[k]].message,
     title |-> <<k - 1, Len(valid_notices), ns[valid_notices[k]].title>>,
     open_url |-> ns[valid_notices[k]].open_url]

\* the message_box call of show_notices for the k-th of the valid notices
MessageBox(ns, valid_notices, k) ==
    [notice |-> valid_notices[k],
     message |-> ns[valid_notices[k]].message,
     title |-> <<k, Len(valid_notices), ns[valid_notices[k]].title>>,
     open_url |-> ns[valid_notices[k]].open_url]

\* mutant of show_notices: a message_box call that raises is skipped
show_notices_skipping_failure(ns, fr, t, fail_at) ==
    LET f == filter_need_show(ns, 1, fr, t)
        n == Len(f.valid_notices)
    IN  [first_run |-> f.first_run,
         valid_notices |-> f.valid_notices,
         displayed |-> [k \in 1 .. (IF fail_at \in 1 .. n THEN n - 1 ELSE n) |->
                          MessageBox(ns, f.valid_notices,
                                     IF fail_at \in 1 .. k THEN k + 1 ELSE k)],
         failed |-> fail_at \in 1 .. n]

\* mutant of show_notices: need_show is asked of a notice when its turn to be
\* displayed comes
show_notices_lazy(ns, fr, t, fail_at) ==
    LET f == filter_need_show(ns, 1, fr, t)
        n == Len(f.valid_notices)
        done == IF fail_at \in 1 .. n THEN fail_at - 1 ELSE n
        asked == IF fail_at \in 1 .. n THEN SubSeq(ns, 1, f.valid_notices[fail_at]) ELSE ns
    IN  [first_run |-> filter_need_show(asked, 1, fr, t).first_run,
         valid_notices |-> f.valid_notices,
         displayed |-> [k \in 1 .. done |-> MessageBox(ns, f.valid_notices, k)],
         failed |-> fail_at \in 1 .. n]

\* NoticeManager.show_notices at instant t.  fail_at = 0: every message_box
\* call returns; fail_at = k: the k-th call (if there is one) raises,
\* try_except catches it and the loop is left.  displayed holds the calls that
\* returned.
show_notices(ns, fr, t, fail_at) ==
    LET f == filter_need_show(ns, 1, fr, t)
        n == Len(f.valid_notices)
        done == IF fail_at \in 1 .. n THEN fail_at - 1 ELSE n
    IN  [first_run |-> f.first_run,
         valid_notices |-> f.valid_notices,
         displayed |-> [k \in 1 .. done |-> MessageBox(ns, f.valid_notices, k)],
         failed |-> fail_at \in 1 .. n]

(***************************************************************************)
(* SpecShow: a manager whose collection was loaded (and so sorted) from a  *)
(* file of one to MaxNotices records, with an empty first-run store; the   *)
(* operations are show_notices, whose message_box calls may fail, and the  *)
(* passing of time.  The i-th record of the file has the message mi; all   *)
(* records have the same title, so two notices share their tracker key     *)
(* when their send_at is the same.                                         *)
(*                                                                         *)
(* hist[i] is the display history of the i-th notice: day, the calendar    *)
(* day it was last displayed on (NoDay: never), and twice, whether it was  *)
(* ever displayed twice in one window of its show_type.                    *)
(***************************************************************************)
\* <<show_type, expire_at, show_only_before_version>>
ShowKinds ==
    {<<st, FarFuture, NoVersion>> : st \in valid_notice_show_type}
    \cup {<<ONCE, 1, NoVersion>>, <<DAILY, FarFuture, now_version>>}

Messages == <<"m1", "m2", "m3", "m4">>

Files ==
    UNION {[1 .. len -> ShowKinds \X {0, 1}] : len \in 1 .. MaxNotices}

FileRecord(f, i) ==
    NewNotice(DefaultSender, "t1", Messages[i], f[i][2], f[i][1][1], "", f[i][1][2], f[i][1][3])

\* whether the days a and b are in the same window of show_type
SameWindow(show_type, a, b) ==
    IF show_type = DAILY THEN a = b
    ELSE IF show_type = WEEKLY THEN a \div DaysPerWeek = b \div DaysPerWeek
    ELSE IF show_type = MONTHLY THEN a \div DaysPerMonth = b \div DaysPerMonth
    ELSE TRUE

NoDay == 0 - 1
NeverDisplayed == [day |-> NoDay, twice |-> FALSE]

InitShow ==
    /\ now = 0
    /\ \E f \in Files : notices = sorted([i \in 1 .. Len(f) |-> FileRecord(f, i)])
    /\ first_run = EmptyStore
    /\ hist = [i \in 1 .. Len(notices) |-> NeverDisplayed]
    /\ disk = NoDisk
    /\ last = [op |-> "init"]

TickShow ==
    /\ now < MaxTime
    /\ now' = now + 1
    /\ last' = [op |-> "tick"]
    /\ UNCHANGED <<notices, first_run, disk, hist>>

ShowNotices ==
    \E fail_at \in 0 .. MaxNotices :
        LET r == show_notices(notices, first_run, now, fail_at)
            shown == {r.displayed[k].notice : k \in 1 .. Len(r.displayed)}
        IN  /\ fail_at <= Len(r.valid_notices)
            /\ first_run' = r.first_run
            /\ last' = [op |-> "show_notices", valid_notices |-> r.valid_notices,
                        displayed |-> r.displayed, failed |-> r.failed]
            /\ hist' = [i \in 1 .. Len(notices) |->
                          IF i \in shown
                          THEN [day |-> get_day(now),
                                twice |-> \/ hist[i].twice
                                          \/ /\ hist[i].day # NoDay
                                             /\ SameWindow(notices[i].show_type,
                                                           hist[i].day, get_day(now))]
                          ELSE hist[i]]
            /\ UNCHANGED <<now, notices, disk>>

NextShow == TickShow \/ ShowNotices

SpecShow == InitShow /\ [][NextShow]_vars

(***************************************************************************)
(* SpecPass: a manager whose collection was loaded (and so sorted) from a  *)
(* file of one to MaxNotices records, with an empty first-run store.  The  *)
(* notices never expire and have no version limit; they have the same      *)
(* title, and either all of them the same send_at (one tracker key for     *)
(* all) or each its own.  The operations are show_notices, whose           *)
(* message_box calls may fail, the reset of the tracker key of a notice,   *)
(* and the passing of a day.                                               *)
(*                                                                         *)
(* last records a show_notices call: asked, what need_show returned for    *)
(* each notice of the collection, fresh, the positions of the notices      *)
(* whose key had no record when the call began, before, the history the    *)
(* call began with, and what was displayed.                                *)
(* hist[i] is the history of the i-th notice since its key was last reset  *)
(* or it was last displayed: lost, the day of the call that found it       *)
(* eligible and did not display it, and shadowed, the day of the call      *)
(* that began with its key fresh and gave the window of the key to an      *)
(* earlier notice (NoDay: there was no such call).                         *)
(***************************************************************************)
\* what need_show returns for the notices from the i-th on, asked in order
RECURSIVE need_show_results(_, _, _, _)
need_show_results(ns, i, fr, t) ==
    IF i > Len(ns) THEN << >>
    ELSE LET a == need_show(ns[i], fr, t)
         IN  <<a.result>> \o need_show_results(ns, i + 1, a.first_run, t)

\* the show types of the records: the tracked ones and ALWAYS
PassFiles ==
    UNION {[1 .. len -> {ONCE, DAILY, WEEKLY, MONTHLY, ALWAYS}] : len \in 1 .. MaxNotices}

PassRecord(f, i, shared) ==
    NewNotice(DefaultSender, "t1", Messages[i], IF shared THEN 0 ELSE i - 1, f[i], "", FarFuture, NoVersion)

NoHistory == [lost |-> NoDay, shadowed |-> NoDay]

SameKey(a, b) == get_first_run_key(a) = get_first_run_key(b)

InitPass ==
    /\ now = 0
    /\ \E f \in PassFiles, shared \in BOOLEAN :
          notices = sorted([i \in 1 .. Len(f) |-> PassRecord(f, i, shared)])
    /\ first_run = EmptyStore
    /\ hist = [i \in 1 .. Len(notices) |-> NoHistory]
    /\ disk = NoDisk
    /\ last = [op |-> "init"]

DayPass ==
    /\ get_day(now) < MaxDays - 1
    /\ now' = now + TicksPerDay
    /\ last' = [op |-> "day"]
    /\ UNCHANGED <<notices, first_run, disk, hist>>

ShowPass ==
    \E fail_at \in 0 .. MaxNotices :
        LET r == show_notices(notices, first_run, now, fail_at)
            valid == {r.valid_notices[k] : k \in 1 .. Len(r.valid_notices)}
            shown == {r.displayed[k].notice : k \in 1 .. Len(r.displayed)}
            fresh == {i \in 1 .. Len(notices) :
                        ~HasRecord(first_run, get_first_run_key(notices[i]))}
        IN  /\ fail_at <= Len(r.valid_notices)
            /\ first_run' = r.first_run
            /\ last' = [op |-> "show_notices",
                        asked |-> need_show_results(notices, 1, first_run, now),
                        fresh |-> fresh,
                        valid_notices |-> r.valid_notices,
                        displayed |-> r.displayed,
                        fail_at |-> fail_at,
                        failed |-> r.failed,
                        before |-> hist]
            /\ hist' = [i \in 1 .. Len(notices) |->
                          IF i \in shown THEN NoHistory
                          ELSE IF ~IsTracked(notices[i]) THEN hist[i]
                          ELSE IF i \in valid THEN [hist[i] EXCEPT !.lost = get_day(now)]
                          ELSE IF /\ i \in fresh
                                  /\ \E j \in valid :
                                        /\ j < i
                                        /\ IsTracked(notices[j])
                                        /\ SameKey(notices[j], notices[i])
                          THEN [hist[i] EXCEPT !.shadowed = get_day(now)]
                          ELSE hist[i]]
            /\ UNCHANGED <<now, notices, disk>>

ResetPass ==
    \E i \in 1 .. Len(notices) :
        /\ first_run' = Notice_reset_first_run(notices[i], first_run)
        /\ hist' = [j \in 1 .. Len(notices) |->
                      IF SameKey(notices[i], notices[j]) THEN NoHistory ELSE hist[j]]
        /\ last' = [op |-> "reset_first_run", notice |-> i]
        /\ UNCHANGED <<now, notices, disk>>

NextPass == DayPass \/ ShowPass \/ ResetPass

SpecPass == InitPass /\ [][NextPass]_vars

(***************************************************************************)
(* load and save.  A file is missing, is not JSON (garbage), or is a JSON  *)
(* list of raw records; a raw record is a function from field names to     *)
(* values, or a value that is no such record (BadRecord), on which the     *)
(* deserialization raises.  disk gives the file at the save path and the   *)
(* file at the cache path.  Malformed is a send_at that is no timestamp:   *)
(* parse_time raises on it.                                                *)
(***************************************************************************)
Missing == [kind |-> "missing"]
Garbage == [kind |-> "garbage"]
Json(records) == [kind |-> "json", records |-> records]

BadRecord == [bad |-> TRUE]
Malformed == 0 - 2

\* mutant of Notice: the default of show_only_before_version is ""
Notice_without_version_limit ==
    [sender |-> DefaultSender, title |-> "title0", message |-> "message0",
     send_at |-> 0, show_type |-> ONCE, open_url |-> "",
     expire_at |-> FarFuture, show_only_before_version |-> NoVersion]

\* Notice(): the notice of the class defaults
Notice ==
    [sender |-> DefaultSender, title |-> "title0", message |-> "message0",
     send_at |-> 0, show_type |-> ONCE, open_url |-> "",
     expire_at |-> FarFuture, show_only_before_version |-> now_version]

\* mutant of to_raw_type: show_only_before_version is not written
to_raw_type_no_version(n) ==
    [sender |-> n.sender, title |-> n.title, message |-> n.message,
     send_at |-> n.send_at, show_type |-> n.show_type, open_url |-> n.open_url,
     expire_at |-> n.expire_at]

\* to_raw_type on one notice: the raw record of its fields
to_raw_type(n) ==
    [sender |-> n.sender, title |-> n.title, message |-> n.message,
     send_at |-> n.send_at, show_type |-> n.show_type, open_url |-> n.open_url,
     expire_at |-> n.expire_at,
     show_only_before_version |-> n.show_only_before_version]

\* ConfigInterface.auto_update_config: the fields the raw record has replace
\* those of the object, the others keep the value the object has
auto_update_config(obj, raw) ==
    [f \in DOMAIN obj |-> IF f \in DOMAIN raw THEN raw[f] ELSE obj[f]]

\* the loop of load from the i-th record on: the collection with the records
\* appended before the first one whose deserialization raises
RECURSIVE append_records(_, _, _)
append_records(ns, records, i) ==
    IF i > Len(records) THEN [notices |-> ns, raised |-> FALSE]
    ELSE IF records[i] = BadRecord THEN [notices |-> ns, raised |-> TRUE]
    ELSE append_records(Append(ns, auto_update_config(Notice, records[i])), records, i + 1)

\* whether sorted raises: with two notices or more every notice is compared
\* with another one, and comparing parses the send_at of both
sorted_raises(ns) ==
    /\ Len(ns) > 1
    /\ \E i \in 1 .. Len(ns) : ns[i].send_at = Malformed

FetchFails == [kind |-> "fail"]

\* download_latest_notices: fetched is the file the remote serves, or
\* FetchFails when the download raises
download_latest_notices(d, fetched) ==
    IF fetched = FetchFails THEN [raised |-> TRUE, disk |-> d]
    ELSE [raised |-> FALSE, disk |-> [d EXCEPT !.cache = fetched]]

Loaded(ns, d, failure) == [notices |-> ns, disk |-> d, failure |-> failure]

\* mutant of load: the collection is replaced when the whole load succeeded
load_all_or_nothing(ns, d, from_remote, fetched) ==
    LET dl == IF from_remote THEN download_latest_notices(d, fetched)
              ELSE [raised |-> FALSE, disk |-> d]
        file == dl.disk[IF from_remote THEN "cache" ELSE "save"]
    IN  IF dl.raised THEN Loaded(ns, dl.disk, "fetch")
        ELSE IF file = Missing THEN Loaded(ns, dl.disk, "missing")
        ELSE IF file = Garbage THEN Loaded(ns, dl.disk, "parse")
        ELSE LET ap == append_records(ns, file.records, 1)
             IN  IF ap.raised THEN Loaded(ns, dl.disk, "record")
                 ELSE IF sorted_raises(ap.notices) THEN Loaded(ns, dl.disk, "sort")
                 ELSE Loaded(sorted(ap.notices), dl.disk, "none")

\* NoticeManager.load under try_except: the collection and the disk after
\* the call, and failure, what raised inside the call ("none": nothing);
\* the call returns normally in every case
load(ns, d, from_remote, fetched) ==
    LET dl == IF from_remote THEN download_latest_notices(d, fetched)
              ELSE [raised |-> FALSE, disk |-> d]
        file == dl.disk[IF from_remote THEN "cache" ELSE "save"]
    IN  IF dl.raised THEN Loaded(ns, dl.disk, "fetch")
        ELSE IF file = Missing THEN Loaded(ns, dl.disk, "missing")
        ELSE IF file = Garbage THEN Loaded(ns, dl.disk, "parse")
        ELSE LET ap == append_records(ns, file.records, 1)
             IN  IF ap.raised THEN Loaded(ap.notices, dl.disk, "record")
                 ELSE IF sorted_raises(ap.notices) THEN Loaded(ap.notices, dl.disk, "sort")
                 ELSE Loaded(sorted(ap.notices), dl.disk, "none")

\* NoticeManager.save under try_except: the disk after the call; outcome is
\* "ok", "unwritable" (the file cannot be opened, and stays as it is) or
\* "truncated" (the file was opened and the writing raised)
save(ns, d, outcome) ==
    IF outcome = "unwritable" THEN d
    ELSE IF outcome = "truncated" THEN [d EXCEPT !.save = Garbage]
    ELSE [d EXCEPT !.save = Json([i \in 1 .. Len(ns) |-> to_raw_type(ns[i])])]

(***************************************************************************)
(* SpecLoad: the manager and its files at a fixed instant in second 1.     *)
(* The operations are the construction of a new manager (an empty          *)
(* collection, then load), load on the manager there is, save and          *)
(* add_notice; the collection grows to MaxNotices notices.  The remote     *)
(* serves one of RemoteFiles or fails.                                     *)
(*                                                                         *)
(* hist.saved is the collection the last successful save wrote             *)
(* (hist.written says there was one, and the file is still that one).      *)
(***************************************************************************)
RawRecord(title, send_at) ==
    [title |-> title, message |-> "m1", send_at |-> send_at, show_type |-> ALWAYS,
     show_only_before_version |-> NoVersion]

RemoteFiles ==
    {Json(<<RawRecord("t1", 1), RawRecord("t2", 0)>>),
     Json(<<RawRecord("t1", 0), BadRecord>>),
     Json(<<RawRecord("t1", Malformed), RawRecord("t2", 1)>>),
     Garbage}

LoadOp(op, from_remote, failure, before_len) ==
    [op |-> op, from_remote |-> from_remote, failure |-> failure, before_len |-> before_len]

InitLoad ==
    /\ now = TicksPerSec
    /\ notices = << >>
    /\ first_run = EmptyStore
    /\ disk = [save |-> Missing, cache |-> Missing]
    /\ hist = [saved |-> << >>, written |-> FALSE]
    /\ last = [op |-> "init"]

\* NoticeManager(load_from_remote)
NewManager ==
    \E from_remote \in BOOLEAN, fetched \in RemoteFiles \cup {FetchFails} :
        LET r == load(<< >>, disk, from_remote, fetched)
        IN  /\ from_remote \/ fetched = FetchFails
            /\ notices' = r.notices
            /\ disk' = r.disk
            /\ last' = LoadOp("new", from_remote, r.failure, 0)
            /\ UNCHANGED <<now, first_run, hist>>

Load ==
    \E from_remote \in BOOLEAN, fetched \in RemoteFiles \cup {FetchFails} :
        LET r == load(notices, disk, from_remote, fetched)
        IN  /\ from_remote \/ fetched = FetchFails
            /\ Len(r.notices) <= MaxNotices
            /\ notices' = r.notices
            /\ disk' = r.disk
            /\ last' = LoadOp("load", from_remote, r.failure, Len(notices))
            /\ UNCHANGED <<now, first_run, hist>>

Save ==
    \E outcome \in {"ok", "unwritable", "truncated"} :
        /\ disk' = save(notices, disk, outcome)
        /\ hist' = IF outcome = "ok" THEN [saved |-> notices, written |-> TRUE]
                   ELSE IF outcome = "truncated" THEN [saved |-> << >>, written |-> FALSE]
                   ELSE hist
        /\ last' = [op |-> "save", outcome |-> outcome]
        /\ UNCHANGED <<now, notices, first_run>>

AddNoticeLoad ==
    \E title \in {"t1", "t2"}, send_at \in {NoSendAt, 0} :
        LET after == add_notice(notices, now, title, "m1", DefaultSender, send_at, ALWAYS, "", NoDuration, NoVersion)
        IN  /\ Len(after) <= MaxNotices
            /\ notices' = after
            /\ last' = [op |-> "add_notice"]
            /\ UNCHANGED <<now, first_run, disk, hist>>

NextLoad == NewManager \/ Load \/ Save \/ AddNoticeLoad

SpecLoad == InitLoad /\ [][NextLoad]_vars

(***************************************************************************)
(* SpecLoaded: a manager made with load_from_remote false, whose file at   *)
(* the save path holds one record; the record gives                        *)
(* show_only_before_version or omits it.  The operations are those of      *)
(* Spec on the loaded notice.  hist has the fields it has in Spec, and     *)
(* omitted, whether the record omits show_only_before_version, and         *)
(* cleared, whether the field was set to "" since.                         *)
(***************************************************************************)
NoField == <<0>>

LoadedRecord(show_type, expire_at, version) ==
    LET raw == [title |-> "t1", message |-> "m1", send_at |-> 0,
                show_type |-> show_type, expire_at |-> expire_at]
    IN  IF version = NoField THEN raw
        ELSE [f \in DOMAIN raw \cup {"show_only_before_version"} |->
                IF f = "show_only_before_version" THEN version ELSE raw[f]]

InitLoaded ==
    /\ now = 0
    /\ \E st \in valid_notice_show_type, e \in {1, FarFuture}, v \in {NoField, NoVersion, <<1, 2>>} :
          /\ disk = [save |-> Json(<<LoadedRecord(st, e, v)>>), cache |-> Missing]
          /\ hist = [elig |-> NoInstant, reset |-> "no", blocked |-> "none",
                     omitted |-> v = NoField, cleared |-> FALSE]
    /\ notices = load(<< >>, disk, FALSE, FetchFails).notices
    /\ first_run = EmptyStore
    /\ last = NoOp("init")

\* test(), line 252: notice.show_only_before_version = ""
ClearVersionLimitLoaded ==
    /\ notices' = [notices EXCEPT ![1].show_only_before_version = NoVersion]
    /\ hist' = [hist EXCEPT !.cleared = TRUE]
    /\ last' = NoOp("clear_version")
    /\ UNCHANGED <<now, first_run, disk>>

NextLoaded == Tick \/ NeedShow \/ ResetFirstRun \/ ClearVersionLimitLoaded

SpecLoaded == InitLoaded /\ [][NextLoaded]_vars

(***************************************************************************)
(* The claims on need_show, checked under Spec.  TheNotice is the notice   *)
(* of Spec; Called says that the last operation was a need_show call on    *)
(* it, so that now and the notice are those of the call.                   *)
(***************************************************************************)
TheNotice == notices[1]

Called == last.op = "need_show"

\* C2: a notice whose expireAt is earlier than the current instant is never
\* shown: need_show returns false for every showType (ALWAYS included), every
\* showOnlyBeforeVersion and every tracker state.
C2_ExpiredNeverShown ==
    (Called /\ IsExpired(TheNotice, now)) => last.result = FALSE

\* C2 witness: need_show was called on an expired ALWAYS notice without a
\* version limit and returned false.
C2_Witness ==
    /\ Called /\ IsExpired(TheNotice, now)
    /\ TheNotice.show_type = ALWAYS
    /\ TheNotice.show_only_before_version = NoVersion
    /\ last.result = FALSE

\* C3: a notice whose showOnlyBeforeVersion is set and is less than or equal
\* to the current version is never shown, for every showType and every
\* tracker state.
C3_GatedNeverShown ==
    (Called /\ IsGated(TheNotice)) => last.result = FALSE

\* C3 witness: need_show was called on an unexpired ALWAYS notice limited to
\* a version lower than the current one and returned false.
C3_Witness ==
    /\ Called /\ ~IsExpired(TheNotice, now)
    /\ TheNotice.show_type = ALWAYS
    /\ list_less(TheNotice.show_only_before_version, now_version)
    /\ TheNotice.show_only_before_version # NoVersion
    /\ last.result = FALSE

\* C4: for a ONCE notice that is neither expired nor version-gated, need_show
\* returns true exactly on the first such call on its key (no record, no
\* earlier call since the last reset) and false on every later one, however
\* much time has passed.
C4_OnceOnlyOnce ==
    (Called /\ TheNotice.show_type = ONCE /\ IsEligible(TheNotice, now))
        => (last.result = (last.prev_elig = NoInstant))

\* C4 witness: a ONCE notice was asked again, with no reset in between, in a
\* later month than the earlier call, and need_show returned false.
C4_Witness ==
    /\ Called /\ TheNotice.show_type = ONCE /\ IsEligible(TheNotice, now)
    /\ last.prev_elig # NoInstant
    /\ get_month(last.prev_elig) # get_month(now)
    /\ last.after_reset = "no"
    /\ last.result = FALSE

C6_AlwaysTrueOnEveryCall ==
    (Called /\ TheNotice.show_type = ALWAYS)
        => (last.result = TRUE /\ first_run = last.before)

\* C6 amended: for an ALWAYS notice need_show returns true on every call made
\* while the notice is neither expired nor version-gated (and false otherwise),
\* whatever the store holds and whether or not a reset came before; and it
\* leaves the first-run store as it was.
C6_AlwaysTrueWhileEligible ==
    (Called /\ TheNotice.show_type = ALWAYS)
        => (/\ last.result = IsEligible(TheNotice, now)
            /\ first_run = last.before)

\* C6 witness: need_show returned true for an ALWAYS notice whose key holds a
\* record, and the record is still there.
C6_Witness ==
    /\ Called /\ TheNotice.show_type = ALWAYS
    /\ last.result = TRUE
    /\ HasRecord(last.before, get_first_run_key(TheNotice))
    /\ first_run = last.before

\* C7: for a DEPRECATED notice need_show returns false on every call, the
\* call made right after reset_first_run included.
C7_DeprecatedNeverShown ==
    (Called /\ TheNotice.show_type = DEPRECATED) => last.result = FALSE

\* C7 witness: need_show was called on a DEPRECATED notice, neither expired
\* nor gated, right after a reset that cleared its record, and returned false.
C7_Witness ==
    /\ Called /\ TheNotice.show_type = DEPRECATED
    /\ IsEligible(TheNotice, now)
    /\ last.after_reset = "cleared"
    /\ last.result = FALSE

\* C8: the need_show call that follows reset_first_run on a ONCE, DAILY,
\* WEEKLY or MONTHLY notice returns true when the notice is neither expired
\* nor version-gated, whatever the store held for the key before the reset.
C8_TrueAfterReset ==
    (Called /\ IsTracked(TheNotice) /\ IsEligible(TheNotice, now)
        /\ last.after_reset # "no")
        => last.result = TRUE

\* C8 witness: on day 0 a reset cleared a record made the same day, and the
\* need_show call that followed returned true for a ONCE notice.
C8_Witness ==
    /\ Called /\ TheNotice.show_type = ONCE /\ IsEligible(TheNotice, now)
    /\ last.after_reset = "cleared"
    /\ get_day(now) = 0
    /\ last.result = TRUE

(***************************************************************************)
(* The claims on add_notice, checked under SpecAdd.                        *)
(***************************************************************************)
Added == last.op = "add_notice"

\* C9: add_notice called with a showType outside {once, daily, weekly,
\* monthly, always, deprecated} returns with the collection exactly as it
\* was, whatever the other arguments are.
C9_InvalidShowTypeIgnored ==
    (Added /\ ~last.valid_type) => ~last.changed

\* C9 witness: add_notice was called with an invalid showType and a triple
\* the non-empty collection does not hold, and the collection did not change.
C9_Witness ==
    /\ Added /\ ~last.valid_type
    /\ last.dup = "none"
    /\ Len(notices) >= 1
    /\ ~last.changed

\* C10: add_notice leaves the collection unchanged when it already holds a
\* notice with the same (title, message, sender), whatever the other
\* arguments are; and, starting from the empty collection, no two notices of
\* the collection share a (title, message, sender) triple.
C10_NoDuplicateContent ==
    /\ (Added /\ last.dup # "none") => ~last.changed
    /\ \A i, j \in 1 .. Len(notices) :
          SameContent(notices[i], notices[j].title, notices[j].message, notices[j].sender)
              => i = j

\* C10 witness: add_notice was called with a valid showType, a triple the
\* collection holds and a sendAt other than that notice's, and added nothing.
C10_Witness ==
    /\ Added /\ last.valid_type
    /\ last.dup = "other_send_at"
    /\ Len(notices) = MaxNotices
    /\ ~last.changed

(***************************************************************************)
(* The claim on show_notices, checked under SpecShow.                      *)
(***************************************************************************)
\* C1: across any sequence of show_notices calls, with time advancing between
\* them and no reset, every notice of class ONCE, DAILY, WEEKLY or MONTHLY
\* that is neither expired nor version-gated is displayed exactly once per
\* recurrence period in which show_notices is called: it was never displayed
\* twice in one window, and when show_notices has returned it has been
\* displayed in the current window.
C1_ExactlyOncePerPeriod ==
    \A i \in 1 .. Len(notices) :
        IsTracked(notices[i]) =>
            /\ ~hist[i].twice
            /\ (last.op = "show_notices" /\ IsEligible(notices[i], now))
                  => /\ hist[i].day # NoDay
                     /\ SameWindow(notices[i].show_type, hist[i].day, get_day(now))

(***************************************************************************)
(* The claims on load, save and the order of the collection, checked       *)
(* under SpecLoad.                                                         *)
(***************************************************************************)
WellFormed(ns) == \A i \in 1 .. Len(ns) : ns[i].send_at # Malformed

\* C11: in every reachable state, that is after any sequence of load and
\* add_notice operations, the collection is in ascending order of sendAt
\* (here for the collections whose sendAt are all timestamps).
C11_SortedBySendAt ==
    WellFormed(notices) =>
        \A i, j \in 1 .. Len(notices) :
            i < j => parse_time(notices[i].send_at) <= parse_time(notices[j].send_at)

\* the one-to-one maps of 1..n onto itself
Bijections(n) ==
    {p \in [1 .. n -> 1 .. n] : \A i, j \in 1 .. n : i # j => p[i] # p[j]}

\* res holds the notices of orig, field for field, each once: res[k] is
\* orig[p[k]]; when every send_at is a timestamp they are in ascending order
\* of send_at, those of equal send_at in the order they have in orig
StablySortedCopy(res, orig) ==
    /\ Len(res) = Len(orig)
    /\ \E p \in Bijections(Len(orig)) :
          /\ \A k \in 1 .. Len(res) : res[k] = orig[p[k]]
          /\ WellFormed(orig) =>
                \A k, l \in 1 .. Len(res) :
                    k < l =>
                        \/ parse_time(res[k].send_at) < parse_time(res[l].send_at)
                        \/ /\ res[k].send_at = res[l].send_at
                           /\ p[k] < p[l]

\* the last operation made a new manager that loaded the file the last
\* successful save wrote
LoadedSaved ==
    /\ last.op = "new"
    /\ ~last.from_remote
    /\ hist.written

\* C13: a collection saved with save and then loaded from the local path into
\* a new manager is the saved one, field for field, in the order of the stable
\* sort of the saved collection by sendAt ascending.
C13_SaveLoadRoundTrip ==
    LoadedSaved => StablySortedCopy(notices, hist.saved)

\* the saved collection was not in order
C13_Witness ==
    /\ LoadedSaved
    /\ WellFormed(hist.saved)
    /\ Len(notices) > 1
    /\ notices # hist.saved

\* the file a load call reads, and the records it appends before anything
\* raises: none when the fetch or the reading of the file fails or the file
\* is missing, those before the first record that cannot be deserialized,
\* all of them otherwise
SourceFile(d, from_remote) == IF from_remote THEN d.cache ELSE d.save

AppendedBeforeFailure(file, failure) ==
    IF failure \in {"fetch", "missing", "parse"} THEN << >>
    ELSE LET bad == {i \in 1 .. Len(file.records) : file.records[i] = BadRecord}
             n == IF bad = {} THEN Len(file.records)
                  ELSE (CHOOSE i \in bad : \A j \in bad : i <= j) - 1
         IN  [i \in 1 .. n |-> auto_update_config(Notice, file.records[i])]

\* C15: load returns normally whatever fails inside it; when the remote
\* fetch, the reading of the file or the deserialization of a record fails,
\* the collection holds the notices it held before, then the records appended
\* before the failure; when the source file is missing it is unchanged.
C15_LoadFailsSoft ==
    [][last'.op \in {"new", "load"} /\ last'.failure # "none" =>
          LET before == IF last'.op = "new" THEN << >> ELSE notices
              file == SourceFile(disk', last'.from_remote)
          IN  /\ notices' = before \o AppendedBeforeFailure(file, last'.failure)
              /\ last'.failure = "fetch" => disk' = disk
              /\ last'.failure = "missing" => file = Missing /\ notices' = before
              /\ last'.failure = "parse" => file = Garbage
              /\ last'.failure = "record" =>
                    \E i \in 1 .. Len(file.records) : file.records[i] = BadRecord
              /\ last'.failure = "sort" => ~WellFormed(notices')]_vars

\* a load on a collection that held a notice failed at the second record of
\* its file, and left the first record behind that notice
C15_Witness ==
    /\ last.op = "load"
    /\ last.failure = "record"
    /\ last.before_len = 1
    /\ Len(notices) = 2

(***************************************************************************)
(* The claims on show_notices, checked under SpecPass.  ShowCalled says    *)
(* that the last operation was a show_notices call; Shown gives the        *)
(* positions in the collection of the notices it displayed, in the order   *)
(* of display, and Eligible those of the notices need_show was true for.   *)
(***************************************************************************)
ShowCalled == last.op = "show_notices"

Shown == [k \in 1 .. Len(last.displayed) |-> last.displayed[k].notice]

Eligible == SelectSeq([i \in 1 .. Len(notices) |-> i], LAMBDA i : last.asked[i])

\* the k-th display is that of the notice at position i, numbered k of n
DisplayOf(k, i, n) ==
    /\ last.displayed[k].message = notices[i].message
    /\ last.displayed[k].title = <<k, n, notices[i].title>>
    /\ last.displayed[k].open_url = notices[i].open_url

\* the collection is a ONCE notice A followed by an ALWAYS notice B sent later
OnceThenAlways ==
    /\ Len(notices) = 2
    /\ notices[1].show_type = ONCE
    /\ notices[2].show_type = ALWAYS
    /\ parse_time(notices[1].send_at) < parse_time(notices[2].send_at)

\* C12 (as claimed): with a ONCE notice A sent before an ALWAYS notice B, the
\* show_notices call made with a fresh tracker displays A then B, numbered 1/2
\* and 2/2, and the next one displays only B, numbered 1/1; every show_notices
\* call displays exactly the notices need_show is true for, in the order of
\* the collection, numbered 1..N.
C12_DisplaysAllEligible ==
    ShowCalled =>
        /\ Shown = Eligible
        /\ \A k \in 1 .. Len(Shown) : DisplayOf(k, Eligible[k], Len(Eligible))
        /\ OnceThenAlways /\ 1 \in last.fresh =>
              /\ Shown = <<1, 2>>
              /\ DisplayOf(1, 1, 2) /\ DisplayOf(2, 2, 2)
        /\ OnceThenAlways /\ 1 \notin last.fresh =>
              /\ Shown = <<2>>
              /\ DisplayOf(1, 2, 1)

\* C12 (amended): every show_notices call displays the notices need_show is
\* true for, in the order of the collection, numbered 1..N, up to the first
\* display that fails; with a ONCE notice A sent before an ALWAYS notice B, a
\* call without a failing display shows A then B (1/2, 2/2) when the tracker
\* is fresh, and only B (1/1) when it is not.
C12_DisplaysEligibleUntilFailure ==
    ShowCalled =>
        LET done == IF last.failed THEN last.fail_at - 1 ELSE Len(Eligible)
        IN  /\ Shown = SubSeq(Eligible, 1, done)
            /\ \A k \in 1 .. Len(Shown) : DisplayOf(k, Eligible[k], Len(Eligible))
            /\ OnceThenAlways /\ 1 \in last.fresh /\ ~last.failed =>
                  /\ Shown = <<1, 2>>
                  /\ DisplayOf(1, 1, 2) /\ DisplayOf(2, 2, 2)
            /\ OnceThenAlways /\ 1 \notin last.fresh /\ ~last.failed =>
                  /\ Shown = <<2>>
                  /\ DisplayOf(1, 2, 1)

\* the second call of the scenario: A was displayed before, B alone is now
C12_Witness ==
    /\ ShowCalled
    /\ OnceThenAlways
    /\ 1 \notin last.fresh
    /\ ~last.failed
    /\ Shown = <<2>>
    /\ last.displayed[1].title = <<1, 1, "t1">>

(***************************************************************************)
(* The claim on the expiry of an added notice, checked under SpecExpire.   *)
(***************************************************************************)
\* need_show was called on the added notice with the tracker ready to say
\* yes: the notice is ALWAYS, or no call was made on its key since the start
\* or the last reset
CalledEligibleTracker ==
    /\ Called
    /\ \/ TheNotice.show_type = ALWAYS
       \/ last.prev_elig = NoInstant

SevenDays == DefaultValidDays * TicksPerDay

C16_FailureAbortsTheRest ==
    ShowCalled /\ last.failed =>
        /\ last.fail_at \in 1 .. Len(last.valid_notices)
        /\ Len(last.displayed) = last.fail_at - 1
        /\ \A k \in 1 .. last.fail_at - 1 : last.displayed[k].notice = last.valid_notices[k]
        /\ \A k \in last.fail_at .. Len(last.valid_notices) :
              \A j \in 1 .. Len(last.displayed) :
                  last.displayed[j].notice # last.valid_notices[k]

\* the display of the first of two eligible notices failed: the second was
\* not displayed either
C16_Witness ==
    /\ ShowCalled
    /\ last.failed
    /\ last.fail_at = 1
    /\ Len(last.valid_notices) = 2
    /\ last.displayed = << >>

(***************************************************************************)
(* The claims on the version limit, checked under Spec.                    *)
(***************************************************************************)
\* C17: a need_show call that returns false because the notice is expired or
\* version-gated leaves the first-run store as it was; and a ONCE notice
\* without tracker record is shown by the first need_show call made after its
\* version limit was cleared, whatever need_show calls were made while it was
\* gated.
C17_ChecksBeforeTracker ==
    Called =>
        /\ IsExpired(TheNotice, now) \/ IsGated(TheNotice) =>
              /\ ~last.result
              /\ first_run = last.before
        /\ /\ TheNotice.show_type = ONCE
           /\ IsEligible(TheNotice, now)
           /\ hist.blocked = "passed"
           /\ ~HasRecord(last.before, get_first_run_key(TheNotice))
           => last.result

\* the first call after the limit was cleared, with gated calls before it
C17_Witness ==
    /\ Called
    /\ TheNotice.show_type = ONCE
    /\ hist.blocked = "passed"
    /\ ~HasRecord(last.before, get_first_run_key(TheNotice))
    /\ HasRecord(first_run, get_first_run_key(TheNotice))
    /\ last.result

\* whether the notice at position i was displayed by the last call
WasShown(i) == \E k \in 1 .. Len(last.displayed) : last.displayed[k].notice = i

\* the day d and today are in the same window of the notice n
InWindowOf(n, d) == d # NoDay /\ SameWindow(n.show_type, d, get_day(now))

\* C18: show_notices asks need_show of every notice, and so claims the window
\* of every eligible ONCE, DAILY, WEEKLY or MONTHLY notice, before the first
\* display: whatever display fails, the key of each of them has the record of
\* this call; and a notice a call found eligible and did not display is not
\* displayed by a later call in the same window (ONCE: by no later call)
\* unless its key was reset.
C18_WindowsClaimedBeforeDisplay ==
    ShowCalled =>
        \A i \in 1 .. Len(notices) :
            /\ last.asked[i] /\ IsTracked(notices[i]) =>
                  /\ HasRecord(first_run, get_first_run_key(notices[i]))
                  /\ first_run[get_first_run_key(notices[i])] = now
            /\ InWindowOf(notices[i], last.before[i].lost) => ~WasShown(i)

\* a call displays a notice, and not the one an earlier call of the same
\* window lost to a failing display
C18_Witness ==
    /\ ShowCalled
    /\ ~last.failed
    /\ last.displayed # << >>
    /\ \E i \in 1 .. Len(notices) :
          /\ InWindowOf(notices[i], last.before[i].lost)
          /\ notices[i].show_type = DAILY
          /\ ~WasShown(i)

SameTitleAndSendAt(a, b) == a.title = b.title /\ a.send_at = b.send_at

\* C19: notices with the same title and the same sendAt share one tracker key
\* though their messages differ; of the tracked ones among them a
\* show_notices call that finds the key fresh holds only the first in
\* collection order for eligible, and the others are not displayed by a later
\* call in the same window; reset_first_run on one resets the key of all.
C19_SharedKey ==
    /\ \A i, j \in 1 .. Len(notices) :
          SameTitleAndSendAt(notices[i], notices[j]) =>
              get_first_run_key(notices[i]) = get_first_run_key(notices[j])
    /\ ShowCalled =>
          \A j \in 1 .. Len(notices) :
              /\ IsTracked(notices[j]) /\ j \in last.fresh =>
                    (last.asked[j] <=>
                        ~\E i \in 1 .. j - 1 :
                            /\ IsTracked(notices[i])
                            /\ SameTitleAndSendAt(notices[i], notices[j]))
              /\ InWindowOf(notices[j], last.before[j].shadowed) => ~WasShown(j)
    /\ last.op = "reset_first_run" =>
          \A j \in 1 .. Len(notices) :
              SameTitleAndSendAt(notices[last.notice], notices[j]) =>
                  ~HasRecord(first_run, get_first_run_key(notices[j]))

\* two tracked notices with one key and two messages: the first is displayed
\* and the second is not
C19_Witness ==
    /\ ShowCalled
    /\ Len(notices) = 2
    /\ SameTitleAndSendAt(notices[1], notices[2])
    /\ notices[1].message # notices[2].message
    /\ IsTracked(notices[1]) /\ IsTracked(notices[2])
    /\ 2 \in last.fresh
    /\ WasShown(1)
    /\ ~WasShown(2)

(***************************************************************************)
(* The claim on the default version limit, checked under SpecLoaded.       *)
(***************************************************************************)
\* C20: a notice load built from a record without showOnlyBeforeVersion has
\* the class default, the current version, as its limit; until the field is
\* cleared need_show is false for it on every call, whatever its showType,
\* and leaves the first-run store as it was.
C20_DefaultLimitHides ==
    hist.omitted /\ ~hist.cleared =>
        /\ TheNotice.show_only_before_version = now_version
        /\ Called => ~last.result /\ first_run = last.before
        /\ first_run = EmptyStore

\* need_show is false for an ALWAYS notice that is not expired
C20_Witness ==
    /\ hist.omitted
    /\ ~hist.cleared
    /\ Called
    /\ TheNotice.show_type = ALWAYS
    /\ ~IsExpired(TheNotice, now)
    /\ ~last.result

====
